---- MODULE Spec2Model ----
(***************************************************************************)
(* The RGR (Red-Green-Refactor) orchestrator: the main polling loop of     *)
(* orchestrator.py, its message handlers and operator commands, and the    *)
(* MailboxWatcher of mailbox_watcher.py.                                   *)
(*                                                                         *)
(* A task is identified by its position in the task list (1..NumTasks);    *)
(* 0 stands for Python's None.  A message file is a record; its stem (the  *)
(* file name without .json) is its identifier, as write_to_mailbox names   *)
(* the files it writes.                                                    *)
(***************************************************************************)
EXTENDS Integers, Sequences, FiniteSets, TLC

VARIABLES
    tasks,            \* tasks_data["tasks"]: status and attempts of every task
    saved,            \* the contents of tasks.json
    rgr_state,        \* the global rgr_state
    current_task_id,  \* the global current_task_id (0 = None)
    paused,           \* the global _paused
    cmd_queue,        \* _cmd_queue
    files,            \* the mailbox directories to_qa, to_dev, to_refactor
    processed,        \* MailboxWatcher._processed
    surfaced,         \* how often check_new_messages has returned each stem
    batch,            \* the list check_new_messages returned, still to be routed
    pc,               \* where the main loop stands
    now,              \* the clock, in seconds
    tmux,             \* the state of the terminal-signalling transport
    last_nudge,       \* _last_nudge (-1 = no entry)
    events,           \* number of things the environment has done (messages, commands, seconds)
    wrote,            \* the messages written by the last step (the "Wrote ..." log lines)
    merged,           \* the merges attempted by the last step
    nudged,           \* the agents woken by the last step
    cleared,          \* the agents sent /clear by the last step
    merged_ok,        \* the branches merged successfully so far
    cycle,            \* the branches merged successfully since the current cycle began
    repo,             \* the default workspace around one call of git_merge_into_default
    arrived_paused,   \* the agents' messages that were written while polling was paused
    returned_to       \* which recipient's poll has returned which file name

vars == <<tasks, saved, rgr_state, current_task_id, paused, cmd_queue, files,
          processed, surfaced, batch, pc, now, tmux, last_nudge, events,
          wrote, merged, nudged, cleared, merged_ok, cycle, repo, arrived_paused, returned_to>>

-----------------------------------------------------------------------------
(* Bounds of the model *)

NumTasks  == 3
MaxEvents == 3

(* Configuration *)

max_attempts_per_task == 2
tmux_nudge_cooldown   == 1
repo_dir              == TRUE

-----------------------------------------------------------------------------
(* Values *)

IDLE                  == "idle"
WAITING_QA_RED        == "waiting_qa_red"
WAITING_DEV_GREEN     == "waiting_dev_green"
WAITING_REFACTOR_BLUE == "waiting_refactor_blue"
BLOCKED               == "blocked"

RGRState == {IDLE, WAITING_QA_RED, WAITING_DEV_GREEN, WAITING_REFACTOR_BLUE, BLOCKED}

Agents  == {"qa", "dev", "refactor"}
TaskIds == 1..NumTasks

MergeOutcomes   == {"ok", "conflict", "failed"}
DefaultOutcomes == {"ok", "conflict", "failed", "checkout_failed"}
TmuxStates      == {"ok", "no_session", "missing"}
\* What the inference service does with a request: no connection, an HTTP error status, a
\* body that is not JSON, a response text that is not JSON once tags and fences are
\* stripped, a response text that is JSON but no object, or a decision with this action
LlmFailures     == {"unreachable", "http_error", "body_not_json", "invalid_json", "not_object"}
LlmReplies      == LlmFailures \cup {"flag_human", "next_task"}
Verdicts        == {"pass", "fail", "unknown"}

-----------------------------------------------------------------------------
(* Message files *)

\* The file write_to_mailbox writes: orch-<int(time.time())>-<msg_type>.json
OrchFile(t, msg_type, task_id) ==
    [stem |-> <<"orch", t, msg_type>>, from |-> "orchestrator", type |-> msg_type,
     status |-> "none", task |-> task_id, ok |-> TRUE]

\* A file an agent writes through its own tool: the n-th message of the run
AgentFile(n, sender, verdict) ==
    [stem |-> <<"msg", n, "msg">>, from |-> sender, type |-> "msg",
     status |-> verdict, task |-> 0, ok |-> TRUE]

\* A file an agent writes that is a JSON object without the field "type"
UntypedFile(n, sender) ==
    [stem |-> <<"msg", n, "msg">>, from |-> sender, type |-> "missing",
     status |-> "none", task |-> 0, ok |-> TRUE]

TypeRank(msg_type) ==
    CASE msg_type = "all_done"         -> 0
      [] msg_type = "fix_required"     -> 1
      [] msg_type = "refactor_request" -> 2
      [] msg_type = "task_assignment"  -> 3
      [] msg_type = "test_request"     -> 4
      [] OTHER                         -> 5

\* The place of a file name in sorted(target_dir.glob("*.json"))
StemKey(stem) ==
    IF stem[1] = "msg" THEN stem[2]
    ELSE 100 + 6 * stem[2] + TypeRank(stem[3])

RECURSIVE SortFiles(_)
SortFiles(fs) ==
    IF fs = {} THEN << >>
    ELSE LET f == CHOOSE x \in fs : \A y \in fs : StemKey(x.stem) <= StemKey(y.stem)
         IN  <<f>> \o SortFiles(fs \ {f})

-----------------------------------------------------------------------------
(* The state the handlers read and write, as one record *)

Machine ==
    [tasks |-> tasks, saved |-> saved, rgr_state |-> rgr_state,
     current_task_id |-> current_task_id, paused |-> paused, files |-> files,
     last_nudge |-> last_nudge, tmux |-> tmux, wrote |-> << >>, merged |-> << >>,
     nudged |-> {}, cleared |-> {}, crashed |-> FALSE, new_cycle |-> FALSE]

\* the branches of the merges of one step that went through, in order
Succeeded(ms) ==
    LET ok == SelectSeq(ms, LAMBDA e : e.outcome = "ok")
    IN  [k \in DOMAIN ok |-> ok[k].branch]

Commit(m) ==
    /\ tasks' = m.tasks
    /\ saved' = m.saved
    /\ rgr_state' = m.rgr_state
    /\ current_task_id' = m.current_task_id
    /\ paused' = m.paused
    /\ files' = m.files
    /\ last_nudge' = m.last_nudge
    /\ wrote' = m.wrote
    /\ merged' = m.merged
    /\ nudged' = m.nudged
    /\ cleared' = m.cleared
    /\ merged_ok' = merged_ok \cup {Succeeded(m.merged)[k] : k \in DOMAIN Succeeded(m.merged)}
    /\ cycle' = IF m.new_cycle THEN << >> ELSE cycle \o Succeeded(m.merged)
    /\ repo' = repo
    /\ arrived_paused' = arrived_paused
    /\ returned_to' = returned_to

save_tasks(m) == [m EXCEPT !.saved = m.tasks]

\* get_current_task, were it to pass over the task in progress
get_current_task_pending_only(ts) ==
    IF \E i \in DOMAIN ts : ts[i].status = "pending"
    THEN CHOOSE i \in DOMAIN ts :
            /\ ts[i].status = "pending"
            /\ \A j \in DOMAIN ts : j < i => ts[j].status # "pending"
    ELSE 0

\* The first task that is pending or in_progress, 0 when there is none
get_current_task(ts) ==
    IF \E i \in DOMAIN ts : ts[i].status \in {"pending", "in_progress"}
    THEN CHOOSE i \in DOMAIN ts :
            /\ ts[i].status \in {"pending", "in_progress"}
            /\ \A j \in DOMAIN ts : j < i => ts[j].status \notin {"pending", "in_progress"}
    ELSE 0

write_to_mailbox(m, recipient, msg_type, task_id) ==
    LET f == OrchFile(now, msg_type, task_id)
    IN  [m EXCEPT !.files[recipient] = {g \in @ : g.stem # f.stem} \cup {f},
                  !.wrote = Append(@, [to |-> recipient, type |-> msg_type, task |-> task_id])]

tmux_clear(m, agent) ==
    IF m.tmux = "missing" THEN [m EXCEPT !.crashed = TRUE]
    ELSE [m EXCEPT !.cleared = @ \cup {agent}]

\* tmux_nudge, were a missing tmux binary to raise out of it
tmux_nudge_raises(m, agent) ==
    IF m.last_nudge[agent] # -1 /\ now - m.last_nudge[agent] < tmux_nudge_cooldown
    THEN m
    ELSE CASE m.tmux = "ok" -> [m EXCEPT !.last_nudge[agent] = now, !.nudged = @ \cup {agent}]
           [] m.tmux = "missing" -> [m EXCEPT !.crashed = TRUE]
           [] OTHER -> m

\* tmux_nudge, were it to send without looking at the time of the last wake
tmux_nudge_no_cooldown(m, agent) ==
    IF m.tmux = "ok"
    THEN [m EXCEPT !.last_nudge[agent] = now, !.nudged = @ \cup {agent}]
    ELSE m

tmux_nudge(m, agent) ==
    IF m.last_nudge[agent] # -1 /\ now - m.last_nudge[agent] < tmux_nudge_cooldown
    THEN m
    ELSE IF m.tmux = "ok"
         THEN [m EXCEPT !.last_nudge[agent] = now, !.nudged = @ \cup {agent}]
         ELSE m

send_to_pane(m, agent) ==
    IF m.tmux = "missing" THEN [m EXCEPT !.crashed = TRUE] ELSE m

\* git_merge_branch, were it to take a conflict it has aborted for a merge that went through
git_merge_branch_conflict_passes(outcome) ==
    [success |-> outcome \in {"ok", "conflict"},
     output  |-> IF outcome = "conflict" THEN "MERGE CONFLICT" ELSE outcome]

\* (success, output) of git_merge_branch: output starts with MERGE CONFLICT on a conflict
git_merge_branch(outcome) ==
    [success |-> outcome = "ok",
     output  |-> IF outcome = "conflict" THEN "MERGE CONFLICT" ELSE outcome]

\* (success, output) of git_merge_into_default
git_merge_into_default(outcome) ==
    [success |-> outcome = "ok",
     output  |-> CASE outcome = "conflict"        -> "MERGE CONFLICT"
                   [] outcome = "checkout_failed" -> "Failed to checkout"
                   [] OTHER                       -> outcome]

\* decide, were its fail-safe decision to carry the action next_task
decide_failsafe_next_task(reply) ==
    CASE reply \in {"unreachable", "http_error", "invalid_json"} -> "next_task"
      [] reply \in {"body_not_json", "not_object"}               -> "raise"
      [] OTHER                                                   -> reply

\* The git commands of one git_merge_into_default call and how each of them ends
GitRuns ==
    [status : {"ok", "failed"}, stash : {"ok", "failed"}, checkout : {"ok", "failed"},
     merge : {"ok", "conflict", "failed"}, abort : {"ok", "failed"}, pop : {"ok", "failed"}]

\* repo when no call is looked at
NoCall == [dirty |-> FALSE, changes |-> "none", success |-> "none", output |-> "none"]

\* how the call ends, as the handlers see it
DefaultOutcome(c) ==
    CASE c.checkout = "failed" -> "checkout_failed"
      [] OTHER                 -> c.merge

\* git_merge_into_default command by command: what it returns, and where the changes
\* that were uncommitted before the call are afterwards: in the working tree ("tree"),
\* in the stash ("stash"), or dropped with the stash ("dropped")
merge_into_default_run(dirty, c) ==
    LET attempted == dirty \/ c.status = "failed"
        stashed   == attempted /\ c.stash = "ok" /\ dirty
        before    == IF stashed THEN "stash" ELSE IF dirty THEN "tree" ELSE "none"
        popped    == IF stashed /\ c.pop = "ok" THEN "tree" ELSE before
        r         == git_merge_into_default(DefaultOutcome(c))
    IN  [dirty   |-> dirty,
         success |-> r.success,
         output  |-> r.output,
         changes |-> IF r.success THEN (IF stashed THEN "dropped" ELSE before) ELSE popped]

\* OllamaClient.decide: the action of the decision it returns, or "raise" when an
\* exception leaves it.  A body that is not JSON makes response.json() raise a
\* json.JSONDecodeError (with the standard json module), whose handler reads raw_text
\* before it was ever assigned; a response text that is JSON but no object has no .get
\* for the log line.
decide(reply) ==
    CASE reply \in {"unreachable", "http_error", "invalid_json"} -> "flag_human"
      [] reply \in {"body_not_json", "not_object"}               -> "raise"
      [] OTHER                                                   -> reply

\* OllamaClient.decide_with_system: the action of the decision it returns;
\* "not_a_decision" when it returns the decoded value that is no object
decide_with_system(reply) ==
    CASE reply \in {"unreachable", "http_error", "body_not_json", "invalid_json"} -> "reply"
      [] reply = "not_object"                                                     -> "not_a_decision"
      [] OTHER                                                                    -> reply

-----------------------------------------------------------------------------
(* The pipeline *)

NlReplies ==
    {"unreachable", "body_not_json", "not_object", "msg_dev", "msg_qa", "msg_refactor", "nudge_dev", "nudge_qa",
     "nudge_refactor", "skip", "pause", "resume", "status", "reply"}

\* The lines the operator types: the verbs of handle_command ("status" stands for
\* help, status, tasks and log, which only print), and free text.  The agent named in
\* a typed nudge or msg is drawn from Named; free text reaches every agent.
Named == {"dev"}

Commands ==
    {<<"status", "">>, <<"skip", "">>, <<"pause", "">>, <<"resume", "">>, <<"text", "">>}
    \cup {<<"nudge", a>> : a \in Named} \cup {<<"msg", a>> : a \in Named}

\* assign_task_to_qa, were it to leave current_task_id as it was
assign_task_to_qa_unbound(m, i) ==
    LET m3 == tmux_nudge(write_to_mailbox(m, "qa", "task_assignment", i), "qa")
        m4 == save_tasks([m3 EXCEPT !.tasks[i].status = "in_progress"])
    IN  [m4 EXCEPT !.rgr_state = WAITING_QA_RED, !.new_cycle = TRUE]

assign_task_to_qa(m, i) ==
    LET m1 == [m EXCEPT !.current_task_id = i]
        m2 == IF m1.current_task_id # i
              THEN tmux_clear(tmux_clear(tmux_clear(m1, "qa"), "dev"), "refactor")
              ELSE m1
        m3 == tmux_nudge(write_to_mailbox(m2, "qa", "task_assignment", i), "qa")
        m4 == save_tasks([m3 EXCEPT !.tasks[i].status = "in_progress"])
    IN  IF m2.crashed THEN m2
        ELSE [m4 EXCEPT !.rgr_state = WAITING_QA_RED, !.new_cycle = TRUE]

handle_qa_message(m, outcome) ==
    LET i       == get_current_task(m.tasks)
        task_id == IF m.current_task_id # 0 THEN m.current_task_id ELSE i
        r       == git_merge_branch(outcome)
        m1      == IF repo_dir
                   THEN [m EXCEPT !.merged = Append(@, [branch |-> <<"red", task_id>>,
                                        into |-> "dev", outcome |-> outcome])]
                   ELSE m
        m2      == tmux_nudge(write_to_mailbox(m1, "dev", "test_request", i), "dev")
    IN  IF i = 0 THEN m
        ELSE IF repo_dir /\ ~r.success THEN [m1 EXCEPT !.rgr_state = BLOCKED]
        ELSE [m2 EXCEPT !.rgr_state = WAITING_DEV_GREEN]

\* handle_dev_message, were its test of the merge result inverted
handle_dev_message_inverted(m, outcome) ==
    LET i       == get_current_task(m.tasks)
        task_id == IF m.current_task_id # 0 THEN m.current_task_id ELSE i
        r       == git_merge_branch(outcome)
        m1      == IF repo_dir
                   THEN [m EXCEPT !.merged = Append(@, [branch |-> <<"green", task_id>>,
                                        into |-> "refactor", outcome |-> outcome])]
                   ELSE m
        m2      == tmux_nudge(write_to_mailbox(m1, "refactor", "refactor_request", i),
                              "refactor")
    IN  IF i = 0 THEN m
        ELSE IF repo_dir /\ r.success THEN [m1 EXCEPT !.rgr_state = BLOCKED]
        ELSE [m2 EXCEPT !.rgr_state = WAITING_REFACTOR_BLUE]

handle_dev_message(m, outcome) ==
    LET i       == get_current_task(m.tasks)
        task_id == IF m.current_task_id # 0 THEN m.current_task_id ELSE i
        r       == git_merge_branch(outcome)
        m1      == IF repo_dir
                   THEN [m EXCEPT !.merged = Append(@, [branch |-> <<"green", task_id>>,
                                        into |-> "refactor", outcome |-> outcome])]
                   ELSE m
        m2      == tmux_nudge(write_to_mailbox(m1, "refactor", "refactor_request", i),
                              "refactor")
    IN  IF i = 0 THEN m
        ELSE IF repo_dir /\ ~r.success THEN [m1 EXCEPT !.rgr_state = BLOCKED]
        ELSE [m2 EXCEPT !.rgr_state = WAITING_REFACTOR_BLUE]

\* the test of handle_refactor_message that ends the retries, were it strict
over_limit_strict(attempts) == attempts > max_attempts_per_task

\* the test of handle_refactor_message that ends the retries
over_limit(attempts) == attempts >= max_attempts_per_task

\* the all_done messages, were the refactor agent left out
all_done_but_refactor(m) ==
    LET q == tmux_nudge(write_to_mailbox(m, "qa", "all_done", 0), "qa")
    IN  tmux_nudge(write_to_mailbox(q, "dev", "all_done", 0), "dev")

\* The three all_done messages of handle_refactor_message
all_done(m) ==
    LET q == tmux_nudge(write_to_mailbox(m, "qa", "all_done", 0), "qa")
        d == tmux_nudge(write_to_mailbox(q, "dev", "all_done", 0), "dev")
    IN  tmux_nudge(write_to_mailbox(d, "refactor", "all_done", 0), "refactor")

handle_refactor_message(m, status, outcome, reply) ==
    LET i       == get_current_task(m.tasks)
        m0      == [m EXCEPT !.tasks[i].attempts = @ + 1, !.new_cycle = TRUE]
        task_id == IF m0.current_task_id # 0 THEN m0.current_task_id ELSE i
        r       == git_merge_into_default(outcome)
        m1      == IF repo_dir
                   THEN [m0 EXCEPT !.merged = Append(@, [branch |-> <<"blue", task_id>>,
                                        into |-> "default", outcome |-> outcome])]
                   ELSE m0
        done    == [save_tasks([m1 EXCEPT !.tasks[i].status = "completed"])
                       EXCEPT !.rgr_state = IDLE]
        next    == get_current_task(done.tasks)
        stuck   == [save_tasks([m0 EXCEPT !.tasks[i].status = "stuck"])
                       EXCEPT !.rgr_state = IDLE]
        fix     == tmux_nudge(write_to_mailbox(m0, "dev", "fix_required", i), "dev")
    IN  IF i = 0 THEN m
        ELSE CASE status = "pass" ->
                    IF repo_dir /\ ~r.success THEN [m1 EXCEPT !.rgr_state = BLOCKED]
                    ELSE IF next # 0 THEN assign_task_to_qa(done, next)
                    ELSE all_done(done)
               [] status = "fail" ->
                    IF over_limit(m0.tasks[i].attempts) THEN stuck
                    ELSE [fix EXCEPT !.rgr_state = WAITING_DEV_GREEN]
               [] OTHER ->
                    IF decide(reply) = "raise" THEN [m0 EXCEPT !.crashed = TRUE]
                    ELSE IF decide(reply) = "flag_human" THEN stuck
                    ELSE m0

\* handle_command("skip"), were it to start the task after the current one and leave the
\* current one as it is
skip_command_leaves_current(m) ==
    LET i    == get_current_task(m.tasks)
        rest == {j \in DOMAIN m.tasks : j > i /\ m.tasks[j].status = "pending"}
    IN  IF i = 0 \/ rest = {} THEN m
        ELSE assign_task_to_qa(m, CHOOSE j \in rest : \A k \in rest : j <= k)

\* handle_command("skip")
skip_command(m) ==
    LET i    == get_current_task(m.tasks)
        m1   == save_tasks([m EXCEPT !.tasks[i].status = "stuck"])
        next == get_current_task(m1.tasks)
    IN  IF i = 0 THEN m
        ELSE IF next # 0 THEN assign_task_to_qa(m1, next)
        ELSE m1

\* handle_command("nudge <agent>"): the cooldown entry is dropped first
nudge_command(m, agent) == tmux_nudge([m EXCEPT !.last_nudge[agent] = -1], agent)

interpret_natural_command(m, reply) ==
    LET action == decide_with_system(reply)
    IN  CASE action = "not_a_decision" -> [m EXCEPT !.crashed = TRUE]
          [] action = "msg_dev"        -> send_to_pane(m, "dev")
          [] action = "msg_qa"         -> send_to_pane(m, "qa")
          [] action = "msg_refactor"   -> send_to_pane(m, "refactor")
          [] action = "nudge_dev"      -> nudge_command(m, "dev")
          [] action = "nudge_qa"       -> nudge_command(m, "qa")
          [] action = "nudge_refactor" -> nudge_command(m, "refactor")
          [] action = "skip"           -> skip_command(m)
          [] action = "pause"          -> [m EXCEPT !.paused = TRUE]
          [] action = "resume"         -> [m EXCEPT !.paused = FALSE]
          [] OTHER                     -> m

handle_command(m, cmd, reply) ==
    CASE cmd[1] = "skip"   -> skip_command(m)
      [] cmd[1] = "nudge"  -> nudge_command(m, cmd[2])
      [] cmd[1] = "msg"    -> send_to_pane(m, cmd[2])
      [] cmd[1] = "pause"  -> [m EXCEPT !.paused = TRUE]
      [] cmd[1] = "resume" -> [m EXCEPT !.paused = FALSE]
      [] cmd[1] = "text"   -> interpret_natural_command(m, reply)
      [] OTHER             -> m

\* the routing of the Dev mailbox, were the orchestrator's own messages not passed over
\* but taken by their type
route_dev_message_own_too(m, msg, outcome, into_default, reply) ==
    CASE msg.type = "missing"      -> [m EXCEPT !.crashed = TRUE]
      [] msg.from = "qa" \/ msg.type = "test_request" -> handle_qa_message(m, outcome)
      [] msg.from = "refactor" \/ msg.type \in {"fix_required", "all_done"} ->
            handle_refactor_message(m, msg.status, into_default, reply)
      [] OTHER                     -> m

\* main(): a message found in the Dev mailbox is routed by its sender
\* (every branch but the orchestrator's own logs dev_msg['type'] first)
route_dev_message(m, msg, outcome, into_default, reply) ==
    CASE msg.from = "orchestrator" -> m
      [] msg.type = "missing"      -> [m EXCEPT !.crashed = TRUE]
      [] msg.from = "qa"           -> handle_qa_message(m, outcome)
      [] msg.from = "refactor"     -> handle_refactor_message(m, msg.status, into_default, reply)
      [] OTHER                     -> m

\* main(): a message found in the Refactor mailbox is routed by its sender
route_refactor_message(m, msg, outcome) ==
    CASE msg.from = "orchestrator" -> m
      [] msg.type = "missing"      -> [m EXCEPT !.crashed = TRUE]
      [] msg.from = "dev"          -> handle_dev_message(m, outcome)
      [] OTHER                     -> m

\* main(): the first task, if there is one, is assigned
first_assignment(m) ==
    IF get_current_task(m.tasks) # 0
    THEN assign_task_to_qa(m, get_current_task(m.tasks))
    ELSE m

\* MailboxWatcher.check_new_messages: the files it returns, in the order it returns them
check_new_messages(recipient) ==
    SortFiles({f \in files[recipient] : f.stem \notin processed /\ f.ok})

Returned(msgs) == {msgs[k].stem : k \in DOMAIN msgs}

\* the poll of recipient's mailbox that returned msgs
ReturnedBy(recipient, msgs) ==
    returned_to' = returned_to \cup {<<recipient, stem>> : stem \in Returned(msgs)}

\* the bookkeeping, were the returned names not added to _processed
Watch_forgets(msgs) ==
    /\ processed' = processed
    /\ surfaced' = [s \in DOMAIN surfaced \cup Returned(msgs) |->
                       (IF s \in DOMAIN surfaced THEN surfaced[s] ELSE 0)
                     + (IF s \in Returned(msgs) THEN 1 ELSE 0)]

\* The bookkeeping of one check_new_messages call
Watch(msgs) ==
    /\ processed' = processed \cup Returned(msgs)
    /\ surfaced' = [s \in DOMAIN surfaced \cup Returned(msgs) |->
                       (IF s \in DOMAIN surfaced THEN surfaced[s] ELSE 0)
                     + (IF s \in Returned(msgs) THEN 1 ELSE 0)]

-----------------------------------------------------------------------------
(* The program: module initialisation, the environment, and main() *)

\* What the agents' own tools write: <<mailbox, sender, status>>
AgentSends ==
    {<<"dev", "qa", "none">>, <<"refactor", "dev", "none">>}
    \cup {<<"dev", "refactor", v>> : v \in Verdicts}

\* tasks.json as main() finds it: a fresh list, or the list a previous run left with
\* only its last task still to do
InitialTasks ==
    {[i \in TaskIds |-> [status |-> "pending", attempts |-> 0]],
     [i \in TaskIds |-> IF i < NumTasks THEN [status |-> "completed", attempts |-> 1]
                                         ELSE [status |-> "pending", attempts |-> 0]]}

\* The files the agents may write as the n-th thing that happens: <<mailbox, file>>
AgentWrote(n) ==
    {<<s[1], AgentFile(n, s[2], s[3])>> : s \in AgentSends}
    \cup {<<"dev", UntypedFile(n, "qa")>>}

Init ==
    /\ tasks \in InitialTasks
    /\ saved = tasks
    /\ rgr_state = IDLE
    /\ current_task_id = 0
    /\ paused = FALSE
    /\ cmd_queue = << >>
    /\ files = [a \in Agents |-> {}]
    /\ processed = {}
    /\ surfaced = << >>
    /\ batch = << >>
    /\ pc = "start"
    /\ now = 0
    /\ tmux \in TmuxStates
    /\ last_nudge = [a \in Agents |-> -1]
    /\ events = 0
    /\ wrote = << >>
    /\ merged = << >>
    /\ nudged = {}
    /\ cleared = {}
    /\ merged_ok = {}
    /\ cycle = << >>
    /\ repo = NoCall
    /\ arrived_paused = {}
    /\ returned_to = {}

Running == pc # "crashed"

\* The loop goes on unless the step raised
Goto(m, next) == pc' = IF m.crashed THEN "crashed" ELSE next

\* a second passes (the clock is read by the handlers only, so the seconds that pass
\* while a mailbox is being listed are counted when the listing is done)
Tick ==
    /\ pc \in {"start", "commands", "route_dev", "route_refactor"}
    /\ events < MaxEvents
    /\ events' = events + 1
    /\ now' = now + 1
    /\ UNCHANGED <<tasks, saved, rgr_state, current_task_id, paused, cmd_queue, files,
                   processed, surfaced, batch, pc, tmux, last_nudge,
                   wrote, merged, nudged, cleared,
                   merged_ok, cycle, repo, arrived_paused, returned_to>>

\* _stdin_reader: the operator types a line
StdinReader ==
    /\ pc = "commands"
    /\ events < MaxEvents
    /\ events' = events + 1
    /\ \E cmd \in Commands : cmd_queue' = Append(cmd_queue, cmd)
    /\ UNCHANGED <<tasks, saved, rgr_state, current_task_id, paused, files,
                   processed, surfaced, batch, pc, now, tmux, last_nudge,
                   wrote, merged, nudged, cleared,
                   merged_ok, cycle, repo, arrived_paused, returned_to>>

\* an agent writes a message file into a mailbox
AgentWrites ==
    /\ pc = "commands"
    /\ events < MaxEvents
    /\ events' = events + 1
    /\ \E w \in AgentWrote(events + 1) :
          /\ files' = [files EXCEPT ![w[1]] = @ \cup {w[2]}]
          /\ arrived_paused' = IF paused THEN arrived_paused \cup {w[2].stem}
                                         ELSE arrived_paused
    /\ UNCHANGED <<tasks, saved, rgr_state, current_task_id, paused, cmd_queue,
                   processed, surfaced, batch, pc, now, tmux, last_nudge,
                   wrote, merged, nudged, cleared,
                   merged_ok, cycle, repo, returned_to>>

\* main(): the first task is assigned before the loop starts
Start ==
    /\ pc = "start"
    /\ LET m == first_assignment(Machine)
       IN  Commit(m) /\ Goto(m, "commands")
    /\ UNCHANGED <<cmd_queue, processed, surfaced, batch, now, tmux, events>>

\* main(): one queued command is handled
DrainCommand ==
    /\ pc = "commands"
    /\ cmd_queue # << >>
    /\ cmd_queue' = Tail(cmd_queue)
    /\ \E reply \in IF Head(cmd_queue)[1] = "text" THEN NlReplies ELSE {"reply"} :
          LET m == handle_command(Machine, Head(cmd_queue), reply)
          IN  Commit(m) /\ Goto(m, "commands")
    /\ UNCHANGED <<processed, surfaced, batch, now, tmux, events>>

\* PollQa, were the mailboxes polled although polling is paused
PollQa_while_paused ==
    /\ pc = "commands"
    /\ cmd_queue = << >>
    /\ Watch(check_new_messages("qa"))
    /\ pc' = "poll_dev"
    /\ UNCHANGED <<tasks, saved, rgr_state, current_task_id, paused, cmd_queue, files,
                   batch, now, tmux, last_nudge, events, wrote, merged, nudged, cleared,
                   merged_ok, cycle, repo, arrived_paused>>
    /\ ReturnedBy("qa", check_new_messages("qa"))

\* PollQa, were the mailboxes polled with commands still in the queue
PollQa_before_drain ==
    /\ pc = "commands"
    /\ ~paused
    /\ Watch(check_new_messages("qa"))
    /\ pc' = "poll_dev"
    /\ UNCHANGED <<tasks, saved, rgr_state, current_task_id, paused, cmd_queue, files,
                   batch, now, tmux, last_nudge, events, wrote, merged, nudged, cleared,
                   merged_ok, cycle, repo, arrived_paused>>
    /\ ReturnedBy("qa", check_new_messages("qa"))

\* main(): the queue is drained and polling is not paused: the QA mailbox is polled;
\* its messages are only logged
PollQa ==
    /\ pc = "commands"
    /\ cmd_queue = << >>
    /\ ~paused
    /\ Watch(check_new_messages("qa"))
    /\ pc' = IF \E k \in DOMAIN check_new_messages("qa") :
                    /\ check_new_messages("qa")[k].from # "orchestrator"
                    /\ check_new_messages("qa")[k].type = "missing"
             THEN "crashed"
             ELSE "poll_dev"
    /\ UNCHANGED <<tasks, saved, rgr_state, current_task_id, paused, cmd_queue, files,
                   batch, now, tmux, last_nudge, events, wrote, merged, nudged, cleared,
                   merged_ok, cycle, repo, arrived_paused>>
    /\ ReturnedBy("qa", check_new_messages("qa"))

\* main(): the Dev mailbox is polled
PollDev ==
    /\ pc = "poll_dev"
    /\ LET msgs == check_new_messages("dev")
       IN  /\ Watch(msgs)
           /\ batch' = msgs
           /\ pc' = IF msgs = << >> THEN "poll_refactor" ELSE "route_dev"
    /\ UNCHANGED <<tasks, saved, rgr_state, current_task_id, paused, cmd_queue, files,
                   now, tmux, last_nudge, events, wrote, merged, nudged, cleared,
                   merged_ok, cycle, repo, arrived_paused>>
    /\ ReturnedBy("dev", check_new_messages("dev"))

\* main(): the next message of the Dev mailbox is routed by its sender
RouteDev ==
    /\ pc = "route_dev"
    /\ batch # << >>
    /\ batch' = Tail(batch)
    /\ \E outcome      \in IF Head(batch).from = "qa" THEN MergeOutcomes ELSE {"ok"},
          into_default \in IF Head(batch).status = "pass" THEN DefaultOutcomes ELSE {"ok"},
          reply        \in IF Head(batch).status = "unknown" THEN LlmReplies ELSE {"none"} :
          LET m == route_dev_message(Machine, Head(batch), outcome, into_default, reply)
          IN  Commit(m) /\ Goto(m, IF Tail(batch) = << >> THEN "poll_refactor" ELSE "route_dev")
    /\ UNCHANGED <<cmd_queue, processed, surfaced, now, tmux, events>>

\* PollRefactor, were the Refactor mailbox passed over
PollRefactor_passed_over ==
    /\ pc = "poll_refactor"
    /\ pc' = "commands"
    /\ UNCHANGED <<tasks, saved, rgr_state, current_task_id, paused, cmd_queue, files,
                   processed, surfaced, batch, now, tmux, last_nudge, events, wrote,
                   merged, nudged, cleared, merged_ok, cycle, repo, arrived_paused,
                   returned_to>>

\* main(): the Refactor mailbox is polled
PollRefactor ==
    /\ pc = "poll_refactor"
    /\ LET msgs == check_new_messages("refactor")
       IN  /\ Watch(msgs)
           /\ batch' = msgs
           /\ pc' = IF msgs = << >> THEN "commands" ELSE "route_refactor"
    /\ UNCHANGED <<tasks, saved, rgr_state, current_task_id, paused, cmd_queue, files,
                   now, tmux, last_nudge, events, wrote, merged, nudged, cleared,
                   merged_ok, cycle, repo, arrived_paused>>
    /\ ReturnedBy("refactor", check_new_messages("refactor"))

\* main(): the next message of the Refactor mailbox is routed by its sender
RouteRefactor ==
    /\ pc = "route_refactor"
    /\ batch # << >>
    /\ batch' = Tail(batch)
    /\ \E outcome \in IF Head(batch).from = "dev" THEN MergeOutcomes ELSE {"ok"} :
          LET m == route_refactor_message(Machine, Head(batch), outcome)
          IN  Commit(m) /\ Goto(m, IF Tail(batch) = << >> THEN "commands" ELSE "route_refactor")
    /\ UNCHANGED <<cmd_queue, processed, surfaced, now, tmux, events>>

Next ==
    \/ Tick
    \/ StdinReader
    \/ AgentWrites
    \/ Start
    \/ DrainCommand
    \/ PollQa
    \/ PollDev
    \/ RouteDev
    \/ PollRefactor
    \/ RouteRefactor

Spec == Init /\ [][Next]_vars

-----------------------------------------------------------------------------
(* A MailboxWatcher on its own: files are written, rewritten and cleared in   *)
(* any mailbox under any of a few names, and check_new_messages is called for *)
(* any recipient at any time.                                                 *)

WatcherStems == {1, 2}

\* A file that json.loads rejects
MalformedFile(n) ==
    [stem |-> <<"msg", n, "msg">>, from |-> "", type |-> "", status |-> "none",
     task |-> 0, ok |-> FALSE]

InitWatcher ==
    /\ tasks = [i \in TaskIds |-> [status |-> "pending", attempts |-> 0]]
    /\ saved = tasks
    /\ rgr_state = IDLE
    /\ current_task_id = 0
    /\ paused = FALSE
    /\ cmd_queue = << >>
    /\ files = [a \in Agents |-> {}]
    /\ processed = {}
    /\ surfaced = << >>
    /\ batch = << >>
    /\ pc = "watcher"
    /\ now = 0
    /\ tmux = "ok"
    /\ last_nudge = [a \in Agents |-> -1]
    /\ events = 0
    /\ wrote = << >>
    /\ merged = << >>
    /\ nudged = {}
    /\ cleared = {}
    /\ merged_ok = {}
    /\ cycle = << >>
    /\ repo = NoCall
    /\ arrived_paused = {}
    /\ returned_to = {}

\* a message file is written, or written again, under some name in some mailbox
WriteFile ==
    /\ pc = "watcher"
    /\ events < MaxEvents
    /\ events' = events + 1
    /\ \E a \in Agents, n \in WatcherStems :
          \E f \in {AgentFile(n, "qa", "none"), AgentFile(n, "refactor", "pass"),
                    MalformedFile(n)} :
             files' = [files EXCEPT ![a] = {g \in @ : g.stem # f.stem} \cup {f}]
    /\ UNCHANGED <<tasks, saved, rgr_state, current_task_id, paused, cmd_queue,
                   processed, surfaced, batch, pc, now, tmux, last_nudge,
                   wrote, merged, nudged, cleared,
                   merged_ok, cycle, repo, arrived_paused, returned_to>>

\* MailboxWatcher.clear_mailbox
clear_mailbox ==
    /\ pc = "watcher"
    /\ events < MaxEvents
    /\ events' = events + 1
    /\ \E a \in Agents : files[a] # {} /\ files' = [files EXCEPT ![a] = {}]
    /\ UNCHANGED <<tasks, saved, rgr_state, current_task_id, paused, cmd_queue,
                   processed, surfaced, batch, pc, now, tmux, last_nudge,
                   wrote, merged, nudged, cleared,
                   merged_ok, cycle, repo, arrived_paused, returned_to>>

\* a call of MailboxWatcher.check_new_messages; batch is what it returns
CheckNewMessages ==
    /\ pc = "watcher"
    /\ \E a \in Agents :
          /\ Watch(check_new_messages(a))
          /\ ReturnedBy(a, check_new_messages(a))
          /\ batch' = check_new_messages(a)
    /\ UNCHANGED <<tasks, saved, rgr_state, current_task_id, paused, cmd_queue, files,
                   pc, now, tmux, last_nudge, events, wrote, merged, nudged, cleared,
                   merged_ok, cycle, repo, arrived_paused>>

NextWatcher ==
    \/ WriteFile
    \/ clear_mailbox
    \/ CheckNewMessages

WatcherSpec == InitWatcher /\ [][NextWatcher]_vars

-----------------------------------------------------------------------------
(* git_merge_into_default on its own: one call on a workspace that has or has *)
(* not uncommitted changes, under every way its git commands can end.         *)

InitMerge ==
    /\ tasks = [i \in TaskIds |-> [status |-> "pending", attempts |-> 0]]
    /\ saved = tasks
    /\ rgr_state = IDLE
    /\ current_task_id = 0
    /\ paused = FALSE
    /\ cmd_queue = << >>
    /\ files = [a \in Agents |-> {}]
    /\ processed = {}
    /\ surfaced = << >>
    /\ \E c \in GitRuns : batch = <<c>>
    /\ pc = "merge"
    /\ now = 0
    /\ tmux = "ok"
    /\ last_nudge = [a \in Agents |-> -1]
    /\ events = 0
    /\ wrote = << >>
    /\ merged = << >>
    /\ nudged = {}
    /\ cleared = {}
    /\ merged_ok = {}
    /\ cycle = << >>
    /\ arrived_paused = {}
    /\ returned_to = {}
    /\ \E dirty \in BOOLEAN :
          repo = [dirty |-> dirty, changes |-> IF dirty THEN "tree" ELSE "none",
                  success |-> "none", output |-> "none"]

\* the call; batch holds how its git commands end
MergeIntoDefault ==
    /\ pc = "merge"
    /\ pc' = "merged"
    /\ repo' = merge_into_default_run(repo.dirty, Head(batch))
    /\ UNCHANGED <<tasks, saved, rgr_state, current_task_id, paused, cmd_queue, files,
                   processed, surfaced, batch, now, tmux, last_nudge, events,
                   wrote, merged, nudged, cleared, merged_ok, cycle, arrived_paused, returned_to>>

NextMerge == MergeIntoDefault

MergeSpec == InitMerge /\ [][NextMerge]_vars

-----------------------------------------------------------------------------
(* The pipeline with agents that do their part: the main loop keeps running, *)
(* and each agent answers every assignment it finds in its mailbox; the      *)
(* refactorer's verdict is always "pass".  The operator and the clock are as *)
(* in Spec.                                                                  *)

\* The messages that ask an agent to do something
AssignmentTypes == {"task_assignment", "test_request", "refactor_request", "fix_required"}

\* Where an agent's answer goes: <<mailbox, verdict>>
AnswerOf(agent) ==
    CASE agent = "qa"       -> <<"dev", "none">>
      [] agent = "dev"      -> <<"refactor", "none">>
      [] agent = "refactor" -> <<"dev", "pass">>

\* The assignments in agent's mailbox it has not answered yet
Unanswered(agent) ==
    {f \in files[agent] :
        /\ f.from = "orchestrator"
        /\ f.type \in AssignmentTypes
        /\ ~\E g \in files[AnswerOf(agent)[1]] : g.from = agent /\ g.task = f.task}

\* an agent answers an assignment addressed to it
AgentAnswers(agent) ==
    /\ pc = "commands"
    /\ events' = events + 1
    /\ \E f \in Unanswered(agent) :
          LET g == [AgentFile(events + 1, agent, AnswerOf(agent)[2]) EXCEPT !.task = f.task]
          IN  /\ files' = [files EXCEPT ![AnswerOf(agent)[1]] = @ \cup {g}]
              /\ arrived_paused' = IF paused THEN arrived_paused \cup {g.stem}
                                             ELSE arrived_paused
    /\ UNCHANGED <<tasks, saved, rgr_state, current_task_id, paused, cmd_queue,
                   processed, surfaced, batch, pc, now, tmux, last_nudge,
                   wrote, merged, nudged, cleared,
                   merged_ok, cycle, repo, returned_to>>

\* a step of main(): the first assignment, or a step of the while True loop
MainLoop ==
    \/ Start
    \/ DrainCommand
    \/ PollQa
    \/ PollDev
    \/ RouteDev
    \/ PollRefactor
    \/ RouteRefactor

NextLive ==
    \/ Tick
    \/ StdinReader
    \/ \E agent \in Agents : AgentAnswers(agent)
    \/ MainLoop

\* main() is about to run a handler: the first assignment is still to make, a command
\* is queued, or a polled message is still to be routed
HandlerCanRun ==
    \/ pc = "start"
    \/ pc = "commands" /\ cmd_queue # << >>
    \/ pc \in {"route_dev", "route_refactor"} /\ batch # << >>

\* main() ran that handler: every step of the environment counts itself in events, no
\* step of main() does
HandlerRan == HandlerCanRun /\ events' = events

\* main() never stops by itself (while True with a sleep): weak fairness of each step
\* of MainLoop.  For Start, DrainCommand, RouteDev and RouteRefactor, of which exactly
\* one is enabled where HandlerCanRun holds, it is written out, with HandlerCanRun for
\* ENABLED and HandlerRan for the step.
LoopFairness ==
    /\ WF_vars(PollQa)
    /\ WF_vars(PollDev)
    /\ WF_vars(PollRefactor)
    /\ ([]<>(~HandlerCanRun) \/ []<><<HandlerRan>>_vars)

\* the main loop keeps running, and an agent that keeps finding an unanswered
\* assignment answers it
LiveSpec ==
    /\ Init
    /\ [][NextLive]_vars
    /\ LoopFairness
    /\ \A agent \in Agents : SF_vars(AgentAnswers(agent))

\* Spec with a main loop that keeps running; the agents and the operator do what they
\* will
FairSpec == Spec /\ LoopFairness

-----------------------------------------------------------------------------
(* Steps of the main loop, as seen from the state before and the state after *)

\* the task the handlers work on
cur == get_current_task(tasks)

\* main() routes a message to a handler
RouteStep ==
    /\ pc \in {"route_dev", "route_refactor"}
    /\ batch # << >>
    /\ batch' = Tail(batch)

\* handle_refactor_message processes verdict v for a task
RefactorStep(v) ==
    /\ pc = "route_dev"
    /\ batch # << >>
    /\ batch' = Tail(batch)
    /\ Head(batch).from = "refactor"
    /\ Head(batch).status = v
    /\ cur # 0

\* main() handles the queued command whose verb is among verbs
CommandStep(verbs) ==
    /\ pc = "commands"
    /\ cmd_queue # << >>
    /\ cmd_queue' = Tail(cmd_queue)
    /\ Head(cmd_queue)[1] \in verbs

\* the step attempted a merge, and this is how its last merge ended
MergeEnded(outcomes) ==
    /\ merged' # << >>
    /\ merged'[Len(merged')].outcome \in outcomes

\* the step wrote exactly this one message
WroteOnly(recipient, msg_type, task_id) ==
    /\ wrote' = <<[to |-> recipient, type |-> msg_type, task |-> task_id]>>
    /\ OrchFile(now, msg_type, task_id) \in files'[recipient]

\* main() is about to hand a message with verdict v to handle_refactor_message
AtRefactorVerdict(v) ==
    /\ pc = "route_dev"
    /\ batch # << >>
    /\ Head(batch).from = "refactor"
    /\ Head(batch).status = v
    /\ cur # 0

\* main() is about to hand free text to interpret_natural_command
AtFreeText ==
    /\ pc = "commands"
    /\ cmd_queue # << >>
    /\ Head(cmd_queue)[1] = "text"

\* main() runs a handler: the first assignment, a command or a routed message
HandlerStep ==
    \/ pc = "start" /\ pc' # "start"
    \/ CommandStep({c[1] : c \in Commands})
    \/ RouteStep

\* the last wake signal sent to the agent, if any, lies a full cooldown back
Cooled(agent) ==
    last_nudge[agent] = -1 \/ now - last_nudge[agent] >= tmux_nudge_cooldown

\* the decision by which the interpreter takes free text for a nudge of the agent
NudgeAction(agent) ==
    CASE agent = "qa" -> "nudge_qa" [] agent = "dev" -> "nudge_dev" [] OTHER -> "nudge_refactor"

\* what the pipeline has done, the wake signals apart
Pipeline(m) ==
    [tasks |-> m.tasks, saved |-> m.saved, rgr_state |-> m.rgr_state,
     current_task_id |-> m.current_task_id, files |-> m.files, wrote |-> m.wrote,
     merged |-> m.merged, crashed |-> m.crashed]

\* the machine as it stands, but with no tmux binary
TransportAbsent == [Machine EXCEPT !.tmux = "missing"]

\* the machine as it stands, but with tmux and its session there, and these last wakes
TransportPresent(last) == [Machine EXCEPT !.tmux = "ok", !.last_nudge = last]

SameStatuses == \A i \in TaskIds : tasks'[i].status = tasks[i].status

InProgress == {i \in TaskIds : tasks[i].status = "in_progress"}

-----------------------------------------------------------------------------
(* Claims *)

\* C1: a task's attempts counter changes only when a refactor verdict of "fail" is
\* processed for that task, and then by one; in particular a verdict of "pass" leaves
\* it unchanged.
C1_AttemptsOnlyOnFail ==
    [][\A i \in TaskIds :
          tasks'[i].attempts # tasks[i].attempts
          => /\ RefactorStep("fail")
             /\ i = cur
             /\ tasks'[i].attempts = tasks[i].attempts + 1]_vars

C3_StuckThenNextAssigned ==
    [][(/\ RefactorStep("fail")
        /\ tasks[cur].status = "in_progress"
        /\ tasks[cur].attempts = max_attempts_per_task)
       => /\ tasks'[cur].status = "stuck"
          /\ \A k \in DOMAIN wrote' : wrote'[k].task # cur
          /\ LET next == get_current_task(tasks')
             IN  IF next # 0
                 THEN /\ tasks'[next].status = "in_progress"
                      /\ rgr_state' = WAITING_QA_RED
                 ELSE rgr_state' = IDLE]_vars

\* C4: a step in which a merge reports a conflict sets the state to BLOCKED, changes no
\* task's status and writes no message.
C4_ConflictBlocks ==
    [][(RouteStep /\ MergeEnded({"conflict"}))
       => /\ rgr_state' = BLOCKED
          /\ SameStatuses
          /\ wrote' = << >>
          /\ files' = files]_vars

\* C4, witness: the merge of blue/1 into the default branch has just reported a conflict
C4_Witness ==
    /\ rgr_state = BLOCKED
    /\ merged = <<[branch |-> <<"blue", 1>>, into |-> "default", outcome |-> "conflict"]>>
    /\ tasks[1].status = "in_progress"

\* C5: the state leaves BLOCKED only in a step that handles the operator's resume
\* (typed, or free text the interpreter may take for it).
C5_BlockedUntilResume ==
    [][(rgr_state = BLOCKED /\ rgr_state' # BLOCKED) => CommandStep({"resume", "text"})]_vars

\* C6: handling "resume" while BLOCKED attempts the failed merge again, and when that
\* merge succeeds the next assignment is written and the state leaves BLOCKED.
C6_ResumeRetriesMerge ==
    [][(rgr_state = BLOCKED /\ CommandStep({"resume"}))
       => /\ merged' # << >>
          /\ MergeEnded({"ok"}) => (wrote' # << >> /\ rgr_state' # BLOCKED)]_vars

\* C7 as stated: the state becomes BLOCKED only in a step whose merge reported a conflict.
C7_Original ==
    [][(rgr_state # BLOCKED /\ rgr_state' = BLOCKED)
       => (RouteStep /\ MergeEnded({"conflict"}))]_vars

\* C7 as amended: the state becomes BLOCKED only in a step whose merge reported a
\* failure, be it a conflict or any other failure (a command that timed out, a missing
\* branch, a failed checkout of the default branch); never after a merge that succeeded
\* and never in a step that attempted no merge.
C7_BlockedOnlyOnFailedMerge ==
    [][(rgr_state # BLOCKED /\ rgr_state' = BLOCKED)
       => (RouteStep /\ MergeEnded({"conflict", "failed", "checkout_failed"}))]_vars

\* C7, witness: BLOCKED after a checkout of the default branch failed
C7_Witness ==
    /\ rgr_state = BLOCKED
    /\ merged # << >>
    /\ merged[Len(merged)].outcome = "checkout_failed"

\* C8: no message identifier is returned by check_new_messages more than once.
C8_SurfacedOnce == \A stem \in DOMAIN surfaced : surfaced[stem] <= 1

\* C8, witness: a message was returned, its file was then written again, and a file of
\* the same name lies in a second mailbox
C8_Witness ==
    /\ pc = "watcher"
    /\ \E stem \in DOMAIN surfaced :
          /\ surfaced[stem] = 1
          /\ AgentFile(stem[2], "refactor", "pass") \in files["dev"]
          /\ AgentFile(stem[2], "qa", "none") \in files["refactor"]
          /\ batch = << >>

\* C9: a verdict of "pass" for task 1 whose merge into the default branch succeeds, with
\* task 2 pending, completes task 1, puts task 2 in_progress and binds it as the current
\* task id, writes a task_assignment for task 2 to the QA mailbox and sets the state to
\* WAITING_QA_RED.
C9_PassAssignsNext ==
    [][(/\ RefactorStep("pass")
        /\ MergeEnded({"ok"})
        /\ cur = 1
        /\ tasks[2].status = "pending")
       => /\ tasks'[1].status = "completed"
          /\ tasks'[2].status = "in_progress"
          /\ current_task_id' = 2
          /\ WroteOnly("qa", "task_assignment", 2)
          /\ rgr_state' = WAITING_QA_RED]_vars

\* C9, witness: the scenario itself: the three things that happened are QA's message,
\* then Dev's, then the "pass" of Refactor, and the last of them has been processed
C9_Witness ==
    /\ events = 3
    /\ AgentFile(1, "qa", "none") \in files["dev"]
    /\ AgentFile(2, "dev", "none") \in files["refactor"]
    /\ AgentFile(3, "refactor", "pass") \in files["dev"]
    /\ merged = <<[branch |-> <<"blue", 1>>, into |-> "default", outcome |-> "ok"]>>
    /\ tasks[1].status = "completed"
    /\ tasks[2].status = "in_progress"
    /\ tasks[3].status = "pending"
    /\ rgr_state = WAITING_QA_RED

\* C10: at most one task is in_progress.
C10_OneInProgress == Cardinality(InProgress) <= 1

\* C10, witness: the first task was skipped and the second is in progress
C10_Witness ==
    /\ tasks[1].status = "stuck"
    /\ tasks[1].attempts = 0
    /\ InProgress = {2}

\* C11: a task's status changes from pending to in_progress only in a step after which
\* every task before it in the list is completed or stuck.
C11_ListOrder ==
    [][\A i \in TaskIds :
          (tasks[i].status = "pending" /\ tasks'[i].status = "in_progress")
          => \A j \in TaskIds : j < i => tasks'[j].status \in {"completed", "stuck"}]_vars

\* C11, witness: the third task is in progress, the first having been skipped and the
\* second completed
C11_Witness ==
    /\ tasks[1].status = "stuck"
    /\ tasks[2].status = "completed"
    /\ tasks[3].status = "in_progress"

\* C12: for each task the merges follow the pipeline: green/<task> is merged into the
\* refactor worktree only after red/<task> was merged successfully into the dev worktree,
\* and blue/<task> into the default branch only after green/<task> was merged
\* successfully into the refactor worktree, whatever the order of the agents' messages.
C12_PipelineOrder ==
    [][RouteStep
       => \A k \in DOMAIN merged' :
             /\ merged'[k].branch[1] = "green" => <<"red", merged'[k].branch[2]>> \in merged_ok
             /\ merged'[k].branch[1] = "blue" => <<"green", merged'[k].branch[2]>> \in merged_ok]_vars

\* C13: within one cycle of a task (from its assignment, or from the last refactor
\* verdict, to the next refactor verdict) no branch is merged more than once, whatever
\* messages the agents repeat.
C13_OncePerCycle ==
    \A k1, k2 \in DOMAIN cycle : cycle[k1] = cycle[k2] => k1 = k2

\* C14: whenever the main loop has finished handling a message or a command, the task
\* list in tasks.json equals the task list in memory: the same status and the same
\* attempts for every task.
C14_PersistedEqualsMemory == pc # "crashed" => saved = tasks

\* C15: a verdict of "pass" for the last task that is neither completed nor stuck, whose
\* merge into the default branch succeeds, completes the task, writes an all_done message
\* to each of the mailboxes of qa, dev and refactor and sets the state to IDLE; and with
\* no task left the state IDLE is never left again.
C15_LastPassAllDone ==
    [][/\ (/\ RefactorStep("pass")
           /\ MergeEnded({"ok"})
           /\ \A j \in TaskIds \ {cur} : tasks[j].status \in {"completed", "stuck"})
          => /\ tasks'[cur].status = "completed"
             /\ Len(wrote') = 3
             /\ \A a \in Agents :
                   /\ \E k \in DOMAIN wrote' :
                         wrote'[k] = [to |-> a, type |-> "all_done", task |-> 0]
                   /\ OrchFile(now, "all_done", 0) \in files'[a]
             /\ rgr_state' = IDLE
       /\ (cur = 0 /\ rgr_state = IDLE) => rgr_state' = IDLE]_vars

\* C15, witness: every task is done, the all_done messages lie in the three mailboxes,
\* and a message that arrived after the last "pass" has been routed with the state
\* still IDLE
C15_Witness ==
    /\ cur = 0
    /\ rgr_state = IDLE
    /\ pc = "commands"
    /\ \A a \in Agents : \E f \in files[a] : f.type = "all_done"
    /\ \E p \in files["dev"], q \in files["dev"] \cup files["refactor"] :
          /\ p.from = "refactor" /\ p.status = "pass"
          /\ q.from \in {"qa", "dev", "refactor"}
          /\ q.stem[2] > p.stem[2]
          /\ q.stem \in processed

\* C16: for a refactor message whose verdict is neither "pass" nor "fail" the Decision
\* Client is consulted: when the action of its decision is flag_human (as it is in the
\* fail-safe decision for an unreachable service, an HTTP error or a response text that
\* is not JSON) the current task becomes stuck and the state IDLE; for any other action
\* the task's status, the state and every mailbox are left as they were.
C16_UnknownVerdict ==
    AtRefactorVerdict("unknown")
    => \A reply \in {"flag_human", "next_task", "unreachable", "http_error", "invalid_json"} :
          LET m == handle_refactor_message(Machine, "unknown", "ok", reply)
          IN  IF reply # "next_task"
              THEN /\ m.tasks[cur].status = "stuck"
                   /\ m.rgr_state = IDLE
              ELSE /\ m.tasks[cur].status = tasks[cur].status
                   /\ m.rgr_state = rgr_state
                   /\ m.files = files
                   /\ m.wrote = << >>

\* C16, witness: a message with an unrecognised verdict has been routed for the first
\* task in state WAITING_REFACTOR_BLUE, and task, state and mailboxes are as before
C16_Witness ==
    /\ pc = "poll_refactor"
    /\ rgr_state = WAITING_REFACTOR_BLUE
    /\ tasks[1] = [status |-> "in_progress", attempts |-> 1]
    /\ \E f \in files["dev"] :
          f.from = "refactor" /\ f.status = "unknown" /\ f.stem \in processed
    /\ \A f \in files["dev"] : f.from = "refactor" => f.status = "unknown"
    /\ wrote = << >>

\* C17: decide and decide_with_system never raise: whatever the inference service does
\* (no connection, an HTTP error, a body that is not JSON, a response text that is not
\* JSON, a decoded value that is no object) each call returns a decision, and on each of
\* these failures decide returns the action flag_human and decide_with_system the
\* action reply.
C17_NeverRaises ==
    /\ AtRefactorVerdict("unknown")
       => \A reply \in LlmReplies :
             /\ decide(reply) # "raise"
             /\ reply \in LlmFailures => decide(reply) = "flag_human"
    /\ AtFreeText
       => \A reply \in NlReplies :
             /\ decide_with_system(reply) \notin {"raise", "not_a_decision"}
             /\ reply \in LlmFailures => decide_with_system(reply) = "reply"

\* C18: when assign_task_to_qa starts a task whose id differs from the task id bound
\* before, /clear is sent to each of qa, dev and refactor (the terminal transport being
\* there to carry it) in the step that writes the assignment.
C18_ClearOnNewTask ==
    [][(/\ tmux = "ok"
        /\ current_task_id # 0
        /\ current_task_id' # current_task_id)
       => /\ cleared' = Agents
          /\ \E k \in DOMAIN wrote' : wrote'[k].type = "task_assignment"]_vars

\* C19 as stated: whatever handler runs, a wake signal is sent to an agent only when the
\* last wake signal sent to that agent lies at least tmux_nudge_cooldown seconds back.
C19_Original ==
    [][HandlerStep => \A a \in nudged' : Cooled(a)]_vars

\* C19 as amended: a wake signal sent by a pipeline transition (an assignment, a
\* hand-over, a fix request, the final broadcast, also when a skip causes it) is sent
\* only when the last wake signal sent to that agent lies at least tmux_nudge_cooldown
\* seconds back; a wake signal the operator asks for (nudge <agent>, or free text taken
\* for it) clears the cooldown and is sent at once.
C19_Cooldown ==
    [][/\ ((pc = "start" /\ pc' # "start") \/ RouteStep) => \A a \in nudged' : Cooled(a)
       /\ (pc = "commands" /\ cmd_queue # << >>)
          => \A reply \in IF Head(cmd_queue)[1] = "text" THEN NlReplies ELSE {"reply"} :
                \A a \in handle_command(Machine, Head(cmd_queue), reply).nudged :
                   \/ Cooled(a)
                   \/ Head(cmd_queue) = <<"nudge", a>>
                   \/ Head(cmd_queue)[1] = "text" /\ reply = NudgeAction(a)]_vars

\* C19, witness: a message was written to the dev mailbox within the cooldown of the
\* last wake signal sent to Dev, and no wake signal went with it
C19_Witness ==
    /\ tmux = "ok"
    /\ pc = "poll_refactor"
    /\ wrote # << >>
    /\ wrote[1].to = "dev"
    /\ nudged = {}
    /\ last_nudge["dev"] # -1
    /\ now - last_nudge["dev"] < tmux_nudge_cooldown

\* C20: with no tmux binary at all, the first assignment and the handling of any agent
\* message give the same state, task statuses, attempts, saved task list and mailbox
\* writes as with tmux present (whether or not a wake signal is then due), and never
\* raise; only the wake signals are missing.
C20_TransportAbsent ==
    \A last \in [Agents -> {-1, now}] :
       /\ pc = "start"
          => Pipeline(first_assignment(TransportAbsent))
                = Pipeline(first_assignment(TransportPresent(last)))
       /\ (pc = "route_dev" /\ batch # << >>)
          => \A outcome      \in IF Head(batch).from = "qa" THEN MergeOutcomes ELSE {"ok"},
                into_default \in IF Head(batch).status = "pass" THEN DefaultOutcomes ELSE {"ok"},
                reply        \in IF Head(batch).status = "unknown" THEN LlmReplies ELSE {"none"} :
                Pipeline(route_dev_message(TransportAbsent, Head(batch), outcome,
                                           into_default, reply))
                   = Pipeline(route_dev_message(TransportPresent(last), Head(batch), outcome,
                                                into_default, reply))
       /\ (pc = "route_refactor" /\ batch # << >>)
          => \A outcome \in MergeOutcomes :
                Pipeline(route_refactor_message(TransportAbsent, Head(batch), outcome))
                   = Pipeline(route_refactor_message(TransportPresent(last), Head(batch),
                                                     outcome))

\* C20, witness: with no tmux binary, the messages of QA, Dev and Refactor have taken
\* the first task through its three merges and the second task is assigned
C20_Witness ==
    /\ tmux = "missing"
    /\ events = 3
    /\ {<<"red", 1>>, <<"green", 1>>, <<"blue", 1>>} \subseteq merged_ok
    /\ tasks[1].status = "completed"
    /\ tasks[2].status = "in_progress"
    /\ rgr_state = WAITING_QA_RED
    /\ wrote = <<[to |-> "qa", type |-> "task_assignment", task |-> 2]>>
    /\ nudged = {}
    /\ \A a \in Agents : last_nudge[a] = -1

\* C21: no failure of a transport (no tmux binary or no tmux session, a git command that
\* timed out, an inference service that cannot be reached or answers with an error)
\* during the handling of a message or of any command, typed or free text, ends the
\* main loop.
C21_TransportFailuresSurvived ==
    [][/\ CommandStep({c[1] : c \in Commands} \ {"text"}) => pc' # "crashed"
       /\ (RouteStep /\ Head(batch).status # "unknown") => pc' # "crashed"
       /\ AtFreeText
          => \A reply \in NlReplies \ {"not_object"} :
                ~handle_command(Machine, Head(cmd_queue), reply).crashed
       /\ AtRefactorVerdict("unknown")
          => \A reply \in {"unreachable", "http_error", "flag_human", "next_task"} :
                ~handle_refactor_message(Machine, "unknown", "ok", reply).crashed]_vars

\* C22: a malformed message file (one that cannot be decoded, or a JSON object lacking
\* the field "type") is skipped: it is not handed to a handler, it does not end the main
\* loop, and the messages behind it in the same poll are still routed.
C22_MalformedSkipped ==
    [][/\ \A a \in Agents : \A f \in files[a] : ~f.ok => f.stem \notin Returned(batch')
       /\ (RouteStep /\ Head(batch).type = "missing")
          => /\ pc' # "crashed"
             /\ merged' = << >>
             /\ wrote' = << >>]_vars

\* C23: git_merge_into_default never loses uncommitted changes: when the workspace had
\* uncommitted or untracked changes before the call and the call reports a failure, the
\* changes are in the working tree again afterwards, however the single git commands
\* (status, stash, checkout, merge, abort, pop) ended.
C23_ChangesRestored ==
    (pc = "merged" /\ repo.dirty /\ repo.success = FALSE) => repo.changes = "tree"

\* C24: in every iteration of the main loop the commands in the queue are all handled
\* before a mailbox is polled and before a message is routed.
C24_CommandsFirst ==
    [][((pc = "commands" /\ pc' = "poll_dev") \/ RouteStep) => cmd_queue = << >>]_vars

\* C24, witness: the operator's skip was handled and then QA's message for the second
\* task was routed
C24_Witness ==
    /\ pc = "poll_refactor"
    /\ cmd_queue = << >>
    /\ events = 2
    /\ tasks[1] = [status |-> "stuck", attempts |-> 0]
    /\ rgr_state = WAITING_DEV_GREEN
    /\ merged = <<[branch |-> <<"red", 2>>, into |-> "dev", outcome |-> "ok"]>>

\* C25: a message the orchestrator wrote itself triggers no handler: routing it changes
\* neither the state nor any task's status or attempts, merges nothing and writes
\* nothing.
C25_OwnMessagesIgnored ==
    [][(RouteStep /\ Head(batch).from = "orchestrator")
       => /\ rgr_state' = rgr_state
          /\ tasks' = tasks
          /\ saved' = saved
          /\ current_task_id' = current_task_id
          /\ merged' = << >>
          /\ wrote' = << >>
          /\ files' = files
          /\ pc' # "crashed"]_vars

\* C25, witness: the test_request the orchestrator wrote to the dev mailbox has come
\* back in a later poll and has been routed
C25_Witness ==
    /\ pc = "poll_refactor"
    /\ rgr_state = WAITING_DEV_GREEN
    /\ merged = << >>
    /\ wrote = << >>
    /\ \E f \in files["dev"] :
          f.from = "orchestrator" /\ f.type = "test_request" /\ f.stem \in processed

\* C26: every call of write_to_mailbox creates a message under an identifier no earlier
\* message has, and overwrites no file: after a handler has run, every file that was in
\* a mailbox is still there as it was, and each mailbox has one file more for each
\* message written to it, also for two messages of one type within one second.
C26_WritesNeverOverwrite ==
    [][HandlerStep
       => \A a \in Agents :
             /\ files[a] \subseteq files'[a]
             /\ Cardinality(files'[a])
                   = Cardinality(files[a])
                     + Cardinality({k \in DOMAIN wrote' : wrote'[k].to = a})]_vars

\* C27: while polling is paused no mailbox is polled and no message routed, and the
\* state and the task list change only when a command is handled; a message that
\* arrived while paused is returned by check_new_messages at most once, is routed only
\* once polling is resumed, and has been returned and routed when the first iteration
\* that polls again is complete.
C27_PausedHoldsMessages ==
    [][/\ paused
          => /\ pc \notin {"poll_dev", "route_dev", "poll_refactor", "route_refactor"}
             /\ ~RouteStep
             /\ (rgr_state' # rgr_state \/ tasks' # tasks)
                => CommandStep({c[1] : c \in Commands})
       /\ \A stem \in arrived_paused \cap DOMAIN surfaced' : surfaced'[stem] = 1
       /\ (pc \in {"poll_refactor", "route_refactor"} /\ pc' = "commands")
          => /\ batch' = << >>
             /\ \A a \in {"dev", "refactor"} : \A f \in files'[a] :
                   f.stem \in arrived_paused => f.stem \in processed']_vars

\* C27, witness: QA's message arrived while polling was paused and, polling resumed,
\* has been returned once and routed
C27_Witness ==
    /\ ~paused
    /\ pc = "poll_refactor"
    /\ rgr_state = WAITING_DEV_GREEN
    /\ merged = <<[branch |-> <<"red", 1>>, into |-> "dev", outcome |-> "ok"]>>
    /\ \E f \in files["dev"] :
          /\ f.from = "qa"
          /\ f.stem \in arrived_paused
          /\ f.stem \in DOMAIN surfaced
          /\ surfaced[f.stem] = 1

\* C28: a task's status becomes completed only in a step taken with the RGR state at
\* WAITING_REFACTOR_BLUE; a refactor "pass" processed in any other state completes
\* no task.
C28_CompletedOnlyInBlue ==
    [][\A i \in TaskIds :
          (tasks[i].status # "completed" /\ tasks'[i].status = "completed")
             => rgr_state = WAITING_REFACTOR_BLUE]_vars

\* C29: whenever the RGR state is WAITING_QA_RED, WAITING_DEV_GREEN or
\* WAITING_REFACTOR_BLUE, current_task_id is the identifier of the task that
\* get_current_task returns and that task is in_progress.
C29_BoundTaskIsCurrent ==
    rgr_state \in {WAITING_QA_RED, WAITING_DEV_GREEN, WAITING_REFACTOR_BLUE}
       => /\ cur # 0
          /\ current_task_id = cur
          /\ tasks[cur].status = "in_progress"

\* C30: the command skip changes to stuck only a task that is in_progress, never a
\* task that is still pending.
C30_SkipOnlyInProgress ==
    [][CommandStep({"skip"})
          => \A i \in TaskIds :
                (tasks[i].status # "stuck" /\ tasks'[i].status = "stuck")
                   => tasks[i].status = "in_progress"]_vars

\* C31: every well-formed message file in a recipient's mailbox is returned by a poll
\* of that recipient, also when a file of the same name lies or lay in another
\* recipient's mailbox: no such file has its name in _processed, where every later
\* poll passes it over, without a poll of its own recipient having returned it.
C31_ReturnedToRecipient ==
    \A a \in Agents : \A f \in files[a] :
       (f.ok /\ f.stem \in processed) => <<a, f.stem>> \in returned_to

\* C32: in every reachable state every task's attempts counter is at most
\* max_attempts_per_task.
C32_AttemptsBounded ==
    \A i \in TaskIds : tasks[i].attempts <= max_attempts_per_task

\* every merge attempted so far by the current step went through
MergesSucceed == \A k \in DOMAIN merged : merged[k].outcome = "ok"

\* every task is completed and the pipeline is idle
AllCompleted ==
    /\ \A i \in TaskIds : tasks[i].status = "completed"
    /\ rgr_state = IDLE

NoIntervention ==
    \A k \in DOMAIN cmd_queue : cmd_queue[k][1] \in {"status", "pause", "resume", "nudge"}

AssignmentWritten(agent) ==
    \E k \in DOMAIN wrote : wrote[k].to = agent /\ wrote[k].type \in AssignmentTypes

\* C34: with the transport available, every assignment written to an agent's mailbox
\* is followed, in the same step or later, by a wake signal to that agent, also when it
\* is written within the cooldown of the previous wake signal to that agent.
C34_AssignmentWakes ==
    \A agent \in Agents :
       (AssignmentWritten(agent) /\ tmux = "ok") ~> (agent \in nudged)

====
